---- MODULE Spec2Model ----
(***************************************************************************)
(* Model of youtube_dl/extractor/vlive.py: the VLiveIE single-video        *)
(* extractor (login, status resolution, dispatch, live and replay          *)
(* strategies), the VLiveChannelIE pagination loop and the VLivePlaylistIE *)
(* playlist unwrapping.  One behaviour is one extractor instance on which  *)
(* extract() is called again and again; every network response is an      *)
(* input chosen when the request is made.                                  *)
(***************************************************************************)
EXTENDS Integers, Sequences, FiniteSets, Bags, TLC

\* ---------------------------------------------------------------- bounds
MaxStreams == 2       \* entries in a live playInfo streamList
MaxVariants == 2      \* formats one m3u8 manifest yields
MaxPages == 2         \* pages the channel video list has
MaxRows == 2          \* videos on one channel page
MaxTokens == 3        \* characters between the brackets of playlistVideoSeqs

\* ------------------------------------------------------- python values
None == "None"        \* Python's None / a JSON null / an absent field read with .get
Unbound == "unbound"  \* a local variable no assignment has reached yet

\* -------------------------------------------------------------- state
VARIABLES
  ie,            \* which extractor class the instance is
  email,         \* _get_login_info()[0]
  password,      \* _get_login_info()[1]
  ready,         \* InfoExtractor._ready
  login_info,    \* message.login of the loginInfo response of the running call
  pc,            \* position of the running extract() call
  calls,         \* network requests of the running extract() call, in order
  error,         \* class of the exception the call raised, or None
  error_msg,     \* its message, as <<format>> or <<format, argument>>
  result_kind,   \* None, "info", "url_result" or "playlist_result"
  result_id,     \* id of the returned url_result / playlist_result
  vid_type,      \* officialVideo.type
  upcoming,      \* officialVideo.upcomingYn
  status,        \* VLiveIE._real_extract: status
  key_webpage,   \* body of the inkey response
  key,           \* VLiveIE._real_extract: key
  live_json,     \* the playInfo response: whether it parsed, its result.streamList
  formats,       \* formats of the returned info dict
  is_live,       \* is_live of the returned info dict
  noplaylist,    \* params['noplaylist']
  video_id,      \* video id matched in the URL
  webpage,       \* the playlist page: has it a playlistVideoSeqs list, and its text
  raw_item_ids,  \* VLivePlaylistIE._real_extract: raw_item_ids
  channel_pages, \* the channel's video list pages, as the server holds them
  app_id,        \* VLiveChannelIE._real_extract: app_id
  page_num,      \* VLiveChannelIE._real_extract: page_num
  page_nos,      \* pageNo of each getChannelVideoList request, in order
  entries        \* entries of the playlist being built / returned

vars == <<ie, email, password, ready, login_info, pc, calls, error,
          error_msg, result_kind, result_id, vid_type, upcoming, status,
          key_webpage, key, live_json, formats, is_live, noplaylist, video_id,
          webpage, raw_item_ids, channel_pages, app_id, page_num, page_nos, entries>>

loginVars == <<ready, login_info>>
vliveVars == <<vid_type, upcoming, status, key_webpage, key, live_json, formats, is_live>>
playlistVars == <<noplaylist, webpage, raw_item_ids>>
channelVars == <<channel_pages, app_id, page_num, page_nos>>
resultVars == <<result_kind, result_id, entries>>

\* ------------------------------------------------------------ helpers
RECURSIVE Count(_, _)
Count(s, x) ==
  IF s = <<>> THEN 0
  ELSE (IF Head(s) = x THEN 1 ELSE 0) + Count(Tail(s), x)

Occurs(s, x) == \E i \in 1..Len(s) : s[i] = x

RECURSIVE SeqsUpTo(_, _)
SeqsUpTo(S, n) ==
  IF n = 0 THEN {<<>>}
  ELSE LET shorter == SeqsUpTo(S, n - 1)
       IN shorter \cup {Append(s, x) : s \in {t \in shorter : Len(t) = n - 1}, x \in S}

RECURSIVE SeqToBag(_)
SeqToBag(s) ==
  IF s = <<>> THEN EmptyBag ELSE SetToBag({Head(s)}) (+) SeqToBag(Tail(s))

\* An exception leaves the call: nothing is returned.
Raise(cls, msg) ==
  /\ pc' = "raised"
  /\ error' = cls
  /\ error_msg' = msg

DownloadFailed == Raise("ExtractorError", <<"Unable to download %s", "webpage">>)
ParseFailed == Raise("ExtractorError", <<"Failed to parse JSON">>)
NoError == UNCHANGED <<error, error_msg>>

\* ------------------------------------------------- InfoExtractor.extract
IEs == {"vlive", "vlive:channel", "vlive:playlist"}
Credentials == {None, "secret"}
VideoIds == {"1", "2"}
PlaylistId == "9"
ChannelCode == "FCD4B"

\* Stream entries of the playInfo response.  An entry lacks its serviceUrl, or
\* has one whose manifest either fails to download or yields its variants.
Qualities == {1, 2}
Manifests == SeqsUpTo(Qualities, MaxVariants) \ {<<>>}
StreamEntries ==
  {[serviceUrl |-> FALSE, failed |-> FALSE, manifest |-> <<>>],
   [serviceUrl |-> TRUE, failed |-> TRUE, manifest |-> <<>>]}
  \cup {[serviceUrl |-> TRUE, failed |-> FALSE, manifest |-> m] : m \in Manifests}
StreamLists == SeqsUpTo(StreamEntries, MaxStreams)

\* A channel page: whether result.videoList is there and is a list, and the
\* videoSeq of each of its videos.  The video in row r of page p has videoSeq
\* 10 * p + r, or 0 when its videoSeq is missing or falsy.
NoVideoSeq == 0
VideoSeq(p, r) == 10 * p + r
VideoLists == SeqsUpTo(BOOLEAN, MaxRows)
ChannelPages ==
  {[present |-> FALSE, videoList |-> <<>>]}
  \cup {[present |-> TRUE, videoList |-> v] : v \in VideoLists}
ChannelPageLists ==
  {[p \in 1..Len(pages) |->
      [present |-> pages[p].present,
       videoList |-> [r \in 1..Len(pages[p].videoList) |->
                       IF pages[p].videoList[r] THEN VideoSeq(p, r) ELSE NoVideoSeq]]]
     : pages \in SeqsUpTo(ChannelPages, MaxPages)}

\* An instance is made for one URL: the channel it lists, the playlist
\* it names and the caller's noplaylist option stay as they are.
Init ==
  /\ ie \in IEs
  /\ email \in Credentials
  /\ password \in Credentials
  /\ (ie # "vlive" => email = None /\ password = None)
  /\ ready = FALSE
  /\ login_info = Unbound
  /\ pc = "idle"
  /\ calls = <<>>
  /\ error = None
  /\ error_msg = <<>>
  /\ result_kind = None
  /\ result_id = None
  /\ vid_type = Unbound
  /\ upcoming = FALSE
  /\ status = Unbound
  /\ key_webpage = Unbound
  /\ key = Unbound
  /\ live_json = [parsed |-> FALSE, streamList |-> <<>>]
  /\ formats = <<>>
  /\ is_live = FALSE
  /\ noplaylist \in (IF ie = "vlive:playlist" THEN BOOLEAN ELSE {FALSE})
  /\ video_id \in (IF ie = "vlive:playlist" THEN VideoIds ELSE {"1"})
  /\ webpage = [seqs |-> FALSE, text |-> <<>>]
  /\ raw_item_ids = None
  /\ channel_pages \in (IF ie = "vlive:channel" THEN ChannelPageLists ELSE {<<>>})
  /\ app_id = Unbound
  /\ page_num = 0
  /\ page_nos = <<>>
  /\ entries = <<>>

ResetCall ==
  /\ calls' = <<>>
  /\ error' = None
  /\ error_msg' = <<>>
  /\ result_kind' = None
  /\ result_id' = None
  /\ vid_type' = Unbound
  /\ upcoming' = FALSE
  /\ status' = Unbound
  /\ key_webpage' = Unbound
  /\ key' = Unbound
  /\ live_json' = [parsed |-> FALSE, streamList |-> <<>>]
  /\ formats' = <<>>
  /\ is_live' = FALSE
  /\ webpage' = [seqs |-> FALSE, text |-> <<>>]
  /\ raw_item_ids' = None
  /\ app_id' = Unbound
  /\ page_num' = 0
  /\ page_nos' = <<>>
  /\ entries' = <<>>

\* extract(url): a new call starts once the previous one has returned or raised.
Extract ==
  /\ pc \in {"idle", "returned", "raised"}
  /\ pc' = "initialize"
  /\ ResetCall
  /\ login_info' = Unbound
  /\ UNCHANGED <<ie, email, password, ready, noplaylist, video_id, channel_pages>>

\* initialize(): _real_initialize runs only while _ready is unset; the
\* channel and playlist extractors inherit the empty _real_initialize.
Initialize ==
  /\ pc = "initialize"
  /\ ready \/ ie # "vlive"
  /\ ready' = TRUE
  /\ pc' = "real_extract"
  /\ UNCHANGED <<ie, email, password, login_info, calls,
                 error, error_msg, resultVars, vliveVars, playlistVars,
                 video_id, channelVars>>

\* ---------------------------------------------------------- VLiveIE._login
LoginInfos == {"true", "false", "absent", "not bool"}

LoginSkipped(e, p) == e = None \/ p = None

\* try_get without its bool type check: any truthy message.login counts
is_logged_in_truthy(info) == info \in {"true", "not bool"}

\* lines 75-81: try_get(login_info, lambda x: x['message']['login'], bool) or False
is_logged_in(info) == info = "true"

Login ==
  /\ pc = "initialize"
  /\ ~ready
  /\ ie = "vlive"
  /\ IF LoginSkipped(email, password)
     THEN /\ ready' = TRUE
          /\ pc' = "real_extract"
          /\ UNCHANGED <<login_info, calls, error, error_msg>>
     ELSE \E cookies \in {"ok", "fail"}, post \in {"ok", "fail"},
             info \in LoginInfos \cup {"fail"} :
            CASE cookies = "fail" ->
                   /\ calls' = calls \o <<"login_cookies">>
                   /\ DownloadFailed
                   /\ UNCHANGED <<ready, login_info>>
              [] cookies = "ok" /\ post = "fail" ->
                   /\ calls' = calls \o <<"login_cookies", "login_post">>
                   /\ DownloadFailed
                   /\ UNCHANGED <<ready, login_info>>
              [] cookies = "ok" /\ post = "ok" /\ info = "fail" ->
                   /\ calls' = calls \o <<"login_cookies", "login_post", "loginInfo">>
                   /\ DownloadFailed
                   /\ UNCHANGED <<ready, login_info>>
              [] OTHER ->
                   /\ calls' = calls \o <<"login_cookies", "login_post", "loginInfo">>
                   /\ login_info' = info
                   /\ IF is_logged_in(info)
                      THEN ready' = TRUE /\ pc' = "real_extract" /\ NoError
                      ELSE /\ Raise("ExtractorError", <<"Unable to log in">>)
                           /\ UNCHANGED ready
  /\ UNCHANGED <<ie, email, password, resultVars, vliveVars,
                 playlistVars, video_id, channelVars>>

\* --------------------------------------------------- VLiveIE._real_extract
LiveStatuses == {"LIVE_ON_AIR", "BIG_EVENT_ON_AIR", "LIVE"}
ReplayStatuses == {"VOD_ON_AIR", "BIG_EVENT_INTRO", "VOD"}
Types == LiveStatuses \cup ReplayStatuses
         \cup {"UPCOMING", "LIVE_END", "COMING_SOON", "CANCELED", "ONLY_APP", "FAN_SHIP"}

\* the status without the upcomingYn test of line 116
StatusOfTypeOnly(type, upcomingYn) == type

\* lines 115-121: the status computed from type and upcomingYn
Status(type, upcomingYn) ==
  IF type = "LIVE"
  THEN (IF upcomingYn THEN "UPCOMING" ELSE type)
  ELSE type

\* the inkey branch taken for the types this page cannot replay only
FetchesKeySkippingVod(type) == type \notin {"LIVE", "VOD"}

\* lines 115, 120-128: the branch that downloads the inkey
FetchesKey(type) == type # "LIVE"

\* the dispatch with LIVE_END listed among the live statuses
DispatchedLiveEnd(s) ==
  IF s \in {"LIVE_ON_AIR", "BIG_EVENT_ON_AIR", "LIVE", "LIVE_END"} THEN "_live"
  ELSE IF s \in {"VOD_ON_AIR", "BIG_EVENT_INTRO", "VOD"} THEN "_replay"
  ELSE "raise"

\* lines 130-147: what the status is dispatched to
Dispatched(s) ==
  IF s \in {"LIVE_ON_AIR", "BIG_EVENT_ON_AIR", "LIVE"} THEN "_live"
  ELSE IF s \in {"VOD_ON_AIR", "BIG_EVENT_INTRO", "VOD"} THEN "_replay"
  ELSE "raise"

\* lines 135-147: the message of the error a status raises
StatusMessage(s) ==
  IF s = "LIVE_END" THEN <<"Uploading for replay. Please wait...">>
  ELSE IF s \in {"COMING_SOON", "UPCOMING"} THEN <<"Coming soon!">>
  ELSE IF s = "CANCELED"
    THEN <<"We are sorry, but the live broadcast has been canceled.">>
  ELSE IF s = "ONLY_APP" THEN <<"Unsupported video type">>
  ELSE <<"Unknown status %s", s>>

\* lines 99-121: the video page, its preload state, the status
FetchPage ==
  /\ pc = "real_extract"
  /\ ie = "vlive"
  /\ calls' = Append(calls, "video_page")
  /\ \E page \in {"fail", "no preload state", "not json", "no officialVideo", "ok"} :
       CASE page = "fail" ->
              DownloadFailed /\ UNCHANGED <<vid_type, upcoming, status>>
         [] page = "no preload state" ->
              /\ Raise("ExtractorError", <<"Unable to extract %s", "preload state">>)
              /\ UNCHANGED <<vid_type, upcoming, status>>
         [] page = "not json" ->
              ParseFailed /\ UNCHANGED <<vid_type, upcoming, status>>
         [] page = "no officialVideo" ->
              /\ Raise("KeyError", <<"officialVideo">>)
              /\ UNCHANGED <<vid_type, upcoming, status>>
         [] OTHER ->
              \E type \in Types, upcomingYn \in BOOLEAN :
                /\ vid_type' = type
                /\ upcoming' = upcomingYn
                /\ status' = Status(type, upcomingYn)
                /\ pc' = IF FetchesKey(type) THEN "inkey" ELSE "dispatch"
                /\ NoError
  /\ UNCHANGED <<ie, email, password, loginVars, resultVars,
                 key_webpage, key, live_json, formats, is_live, playlistVars,
                 video_id, channelVars>>

\* lines 122-128: the inkey download and the read of its 'inkey' field
KeyPages == {"not json", "{}", "{inkey: null}", "{inkey: ''}", "{inkey: 'k'}"}

inkey(page) ==
  IF page = "{inkey: null}" THEN None
  ELSE IF page = "{inkey: ''}" THEN ""
  ELSE "k"

FetchKey ==
  /\ pc = "inkey"
  /\ calls' = Append(calls, "inkey")
  /\ \E response \in KeyPages \cup {"fail"} :
       CASE response = "fail" ->
              DownloadFailed /\ UNCHANGED <<key_webpage, key>>
         [] response = "not json" ->
              key_webpage' = response /\ ParseFailed /\ UNCHANGED key
         [] response = "{}" ->
              key_webpage' = response /\ Raise("KeyError", <<"inkey">>) /\ UNCHANGED key
         [] OTHER ->
              /\ key_webpage' = response
              /\ key' = inkey(response)
              /\ pc' = "dispatch"
              /\ NoError
  /\ UNCHANGED <<ie, email, password, loginVars, resultVars,
                 vid_type, upcoming, status, live_json, formats, is_live,
                 playlistVars, video_id, channelVars>>

\* lines 130-147: the dispatch over the status
Dispatch ==
  /\ pc = "dispatch"
  /\ CASE Dispatched(status) = "_live" ->
            pc' = "_live" /\ NoError
       [] Dispatched(status) = "_replay" ->
            IF key = Unbound
            THEN Raise("UnboundLocalError", <<"key">>)
            ELSE pc' = "_replay" /\ NoError
       [] OTHER ->
            Raise("ExtractorError", StatusMessage(status))
  /\ UNCHANGED <<ie, email, password, loginVars, calls, resultVars,
                 vliveVars, playlistVars, video_id, channelVars>>

\* ----------------------------------------------------------- VLiveIE._live
\* _extract_m3u8_formats(..., fatal=False): the formats of the manifest, or
\* none when the manifest cannot be fetched
ExtractM3u8Formats(vid) == IF vid.failed THEN <<>> ELSE vid.manifest

\* _sort_formats: ascending by quality
RECURSIVE Insert(_, _)
Insert(f, sorted) ==
  IF sorted = <<>> THEN <<f>>
  ELSE IF f < Head(sorted) THEN <<f>> \o sorted
  ELSE <<Head(sorted)>> \o Insert(f, Tail(sorted))

RECURSIVE SortFormats(_)
SortFormats(fs) ==
  IF fs = <<>> THEN <<>> ELSE Insert(Head(fs), SortFormats(Tail(fs)))

\* the loop with fatal=True: a manifest that fails raises out of the loop
RECURSIVE StreamLoopFatal(_, _, _)
StreamLoopFatal(streamList, fs, requests) ==
  IF streamList = <<>>
  THEN [formats |-> fs, requests |-> requests, raised |-> FALSE]
  ELSE LET vid == Head(streamList)
       IN IF ~vid.serviceUrl
          THEN [formats |-> fs, requests |-> requests, raised |-> TRUE]
          ELSE IF vid.failed
          THEN [formats |-> fs, requests |-> Append(requests, "m3u8"), raised |-> TRUE]
          ELSE StreamLoopFatal(Tail(streamList), fs \o ExtractM3u8Formats(vid),
                               Append(requests, "m3u8"))

\* lines 170-175: the loop over streamList; vid['serviceUrl'] raises KeyError
\* on an entry without the field, which leaves the loop and the call
RECURSIVE StreamLoop(_, _, _)
StreamLoop(streamList, fs, requests) ==
  IF streamList = <<>>
  THEN [formats |-> fs, requests |-> requests, raised |-> FALSE]
  ELSE LET vid == Head(streamList)
       IN IF ~vid.serviceUrl
          THEN [formats |-> fs, requests |-> requests, raised |-> TRUE]
          ELSE StreamLoop(Tail(streamList), fs \o ExtractM3u8Formats(vid),
                          Append(requests, "m3u8"))

\* lines 162-184; an absent streamList reads as [] (.get('streamList', []))
Live ==
  /\ pc = "_live"
  /\ \E response \in {"fail", "not json", "no result", "ok"} :
       CASE response = "fail" ->
              /\ calls' = Append(calls, "playInfo")
              /\ DownloadFailed
              /\ UNCHANGED <<live_json, formats, is_live, resultVars>>
         [] response = "not json" ->
              /\ calls' = Append(calls, "playInfo")
              /\ ParseFailed
              /\ UNCHANGED <<live_json, formats, is_live, resultVars>>
         [] response = "no result" ->
              /\ calls' = Append(calls, "playInfo")
              /\ Raise("KeyError", <<"result">>)
              /\ UNCHANGED <<live_json, formats, is_live, resultVars>>
         [] OTHER ->
              \E streamList \in StreamLists :
                LET loop == StreamLoop(streamList, <<>>, <<>>)
                IN /\ live_json' = [parsed |-> TRUE, streamList |-> streamList]
                   /\ calls' = Append(calls, "playInfo") \o loop.requests
                   /\ IF loop.raised
                      THEN /\ Raise("KeyError", <<"serviceUrl">>)
                           /\ UNCHANGED <<formats, is_live, resultVars>>
                      ELSE /\ formats' = SortFormats(loop.formats)
                           /\ is_live' = TRUE
                           /\ result_kind' = "info"
                           /\ result_id' = video_id
                           /\ pc' = "returned"
                           /\ NoError
                           /\ UNCHANGED entries
  /\ UNCHANGED <<ie, email, password, loginVars, vid_type, upcoming,
                 status, key_webpage, key, playlistVars, video_id, channelVars>>

\* --------------------------------------------------------- VLiveIE._replay
\* lines 156-160: _extract_video_info(video_id, long_video_id, key) either
\* returns the formats of the video or raises
Replay ==
  /\ pc = "_replay"
  /\ calls' = Append(calls, "video_info")
  /\ \E outcome \in {"ok", "raises"}, fs \in Manifests :
       IF outcome = "ok"
       THEN /\ formats' = fs
            /\ result_kind' = "info"
            /\ result_id' = video_id
            /\ pc' = "returned"
            /\ NoError
            /\ UNCHANGED entries
       ELSE /\ Raise("ExtractorError", <<"Unable to extract %s", "video info">>)
            /\ UNCHANGED <<formats, resultVars>>
  /\ UNCHANGED <<ie, email, password, loginVars, vid_type, upcoming,
                 status, key_webpage, key, live_json, is_live, playlistVars,
                 video_id, channelVars>>

\* -------------------------------------------- VLiveChannelIE._real_extract
AppId == "8c6cc7b45d2568fb668be6e05b6e5a3b"   \* _APP_ID
MaxPageNo == MaxPages + 2                     \* the loop is followed up to this page number

\* lines 211-243: the channel page, app.js, decodeChannelCode
ChannelPrepare ==
  /\ pc = "real_extract"
  /\ ie = "vlive:channel"
  /\ \E page \in {"fail", "no app js", "app js"},
        app_js \in {"fail", "no app id", "VFAN_APP_ID"},
        decode \in {"fail", "no channelSeq", "ok"} :
       LET jsCalls == IF page = "app js" THEN <<"app_js">> ELSE <<>>
           found == IF page = "app js" /\ app_js = "VFAN_APP_ID"
                    THEN "VFAN_APP_ID" ELSE None
       IN IF page = "fail"
          THEN /\ calls' = Append(calls, "channel_page")
               /\ DownloadFailed
               /\ UNCHANGED <<app_id, page_num>>
          ELSE /\ calls' = (<<"channel_page">> \o jsCalls) \o <<"decodeChannelCode">>
               /\ app_id' = IF found # None THEN found ELSE AppId
               /\ CASE decode = "fail" -> DownloadFailed /\ UNCHANGED page_num
                    [] decode = "no channelSeq" ->
                         Raise("KeyError", <<"channelSeq">>) /\ UNCHANGED page_num
                    [] OTHER ->
                         pc' = "channel_list" /\ page_num' = 0 /\ NoError
  /\ UNCHANGED <<ie, email, password, loginVars, resultVars,
                 vliveVars, playlistVars, video_id, channel_pages, page_nos>>

\* The getChannelVideoList response for pageNo n.
VideoListPage(pages, n) ==
  IF n <= Len(pages) THEN pages[n] ELSE [present |-> FALSE, videoList |-> <<>>]

\* the break taken for an absent videoList only (`if videos is None`)
LastPageIfAbsent(video_list) == ~video_list.present

\* lines 269-272: try_get(..., list) and `if not videos: break`
LastPage(video_list) == ~video_list.present \/ video_list.videoList = <<>>

\* lines 274-282: one url_result per video that has a videoSeq
RECURSIVE PageEntries(_)
PageEntries(videos) ==
  IF videos = <<>> THEN <<>>
  ELSE IF Head(videos) = NoVideoSeq THEN PageEntries(Tail(videos))
  ELSE <<Head(videos)>> \o PageEntries(Tail(videos))

\* lines 245-285: one turn of the loop over itertools.count(1), and the
\* playlist_result once the loop is left
ChannelPage ==
  /\ pc = "channel_list"
  /\ page_num < MaxPageNo
  /\ page_num' = page_num + 1
  /\ page_nos' = Append(page_nos, page_num + 1)
  /\ calls' = Append(calls, "getChannelVideoList")
  /\ \E response \in {"fail", "ok"} :
       IF response = "fail"
       THEN DownloadFailed /\ UNCHANGED resultVars
       ELSE LET video_list == VideoListPage(channel_pages, page_num + 1)
            IN IF LastPage(video_list)
               THEN /\ result_kind' = "playlist_result"
                    /\ result_id' = ChannelCode
                    /\ pc' = "returned"
                    /\ NoError
                    /\ UNCHANGED entries
               ELSE /\ entries' = entries \o PageEntries(video_list.videoList)
                    /\ UNCHANGED <<pc, result_kind, result_id>>
                    /\ NoError
  /\ UNCHANGED <<ie, email, password, loginVars, vliveVars,
                 playlistVars, video_id, channel_pages, app_id>>

\* ------------------------------------------- VLivePlaylistIE._real_extract
\* Characters that can stand between the brackets of the page's
\* "playlistVideoSeqs = [...]" assignment.
Digits == {"1", "2"}
Tokens == Digits \cup {",", " "}
Texts == SeqsUpTo(Tokens, MaxTokens)

\* line 339: r'playlistVideoSeqs\s*=\s*(\[[^]]+\])' needs the assignment and at
\* least one character other than ']' between the brackets
SearchSeqs(page) ==
  IF page.seqs /\ Len(page.text) >= 1 THEN page.text ELSE None

\* JSON lexemes of the bracket text: runs of digits and commas, blanks dropped
RECURSIVE Lex(_, _)
Lex(text, number) ==
  LET flush == IF number = <<>> THEN <<>> ELSE <<number>>
  IN IF text = <<>> THEN flush
     ELSE IF Head(text) \in Digits THEN Lex(Tail(text), Append(number, Head(text)))
     ELSE IF Head(text) = "," THEN (flush \o << <<",">> >>) \o Lex(Tail(text), <<>>)
     ELSE flush \o Lex(Tail(text), <<>>)

\* line 349: _parse_json of "[" text "]": the numbers of a well-formed array
ParseItemIds(text) ==
  LET lexemes == Lex(text, <<>>)
      n == Len(lexemes)
      wellFormed ==
        \/ n = 0
        \/ /\ n % 2 = 1
           /\ \A i \in 1..n : (i % 2 = 0) <=> (lexemes[i] = <<",">>)
  IN [ok |-> wellFormed,
      item_ids |-> IF wellFormed
                   THEN [i \in 1..((n + 1) \div 2) |-> lexemes[2 * i - 1]]
                   ELSE <<>>]

\* line 343: `if not raw_item_ids`
NoPlaylistFound(raw) == raw = None

\* lines 321-361
PlaylistExtract ==
  /\ pc = "real_extract"
  /\ ie = "vlive:playlist"
  /\ IF noplaylist
     THEN /\ result_kind' = "url_result"
          /\ result_id' = video_id
          /\ pc' = "returned"
          /\ NoError
          /\ UNCHANGED <<calls, webpage, raw_item_ids, entries>>
     ELSE /\ calls' = Append(calls, "playlist_page")
          /\ \E response \in {"fail", "ok"}, seqs \in BOOLEAN, text \in Texts :
               IF response = "fail"
               THEN /\ DownloadFailed
                    /\ UNCHANGED <<webpage, raw_item_ids, resultVars>>
               ELSE LET page == [seqs |-> seqs, text |-> IF seqs THEN text ELSE <<>>]
                        raw == SearchSeqs(page)
                        parsed == ParseItemIds(raw)
                    IN /\ webpage' = page
                       /\ raw_item_ids' = raw
                       /\ IF NoPlaylistFound(raw)
                          THEN /\ result_kind' = "url_result"
                               /\ result_id' = video_id
                               /\ pc' = "returned"
                               /\ NoError
                               /\ UNCHANGED entries
                          ELSE IF ~parsed.ok
                          THEN ParseFailed /\ UNCHANGED resultVars
                          ELSE /\ entries' = parsed.item_ids
                               /\ result_kind' = "playlist_result"
                               /\ result_id' = PlaylistId
                               /\ pc' = "returned"
                               /\ NoError
  /\ UNCHANGED <<ie, email, password, loginVars, vliveVars,
                 noplaylist, video_id, channelVars>>

\* ------------------------------------------------------- specification
Next ==
  \/ Extract
  \/ Initialize
  \/ Login
  \/ FetchPage
  \/ FetchKey
  \/ Dispatch
  \/ Live
  \/ Replay
  \/ ChannelPrepare
  \/ ChannelPage
  \/ PlaylistExtract

Spec == Init /\ [][Next]_vars

TypeOK ==
  /\ ie \in IEs
  /\ pc \in {"idle", "initialize", "real_extract", "inkey", "dispatch", "_live",
             "_replay", "channel_list", "returned", "raised"}
  /\ (pc = "raised") <=> (error # None)
  /\ (pc = "returned") <=> (result_kind # None)

\* ================================================================ claims
Finished == pc \in {"returned", "raised"}
LoginRequests == {"login_cookies", "login_post", "loginInfo"}
IsLoginRequest(c) == c \in LoginRequests
IsExtractRequest(c) == c \notin LoginRequests
LoginPart(cs) == SelectSeq(cs, IsLoginRequest)
ExtractPart(cs) == SelectSeq(cs, IsExtractRequest)

\* The statuses of the error rows of the dispatch table.
TerminalStatus(s) == s # Unbound /\ s \notin LiveStatuses \cup ReplayStatuses

\* The error each status is to raise, as the dispatch table lists them.
ClaimedMessage(s) ==
  CASE s = "LIVE_END" -> <<"Uploading for replay. Please wait...">>
    [] s = "COMING_SOON" -> <<"Coming soon!">>
    [] s = "UPCOMING" -> <<"Coming soon!">>
    [] s = "CANCELED" -> <<"We are sorry, but the live broadcast has been canceled.">>
    [] s = "ONLY_APP" -> <<"Unsupported video type">>
    [] OTHER -> <<"Unknown status %s", s>>

\* C1: once the status is computed, a page of type LIVE has status UPCOMING
\* exactly when upcomingYn is true and LIVE otherwise, and a page of any other
\* type has its type as status.
C1_StatusResolution ==
  status # Unbound =>
    /\ vid_type = "LIVE" => /\ (status = "UPCOMING") <=> upcoming
                            /\ ~upcoming => status = "LIVE"
    /\ vid_type # "LIVE" => status = vid_type

C1_Witness ==
  /\ vid_type = "LIVE"
  /\ upcoming
  /\ status = "UPCOMING"
  /\ pc = "dispatch"

\* C2: an extraction whose status is in the terminal-error set requests
\* nothing but the video page, and ends by raising the error of its status.
C2_TerminalNoFetch ==
  (ie = "vlive" /\ TerminalStatus(status)) =>
    /\ ExtractPart(calls) = <<"video_page">>
    /\ Finished => /\ pc = "raised"
                   /\ error = "ExtractorError"
                   /\ error_msg = ClaimedMessage(status)

\* C3: the inkey is fetched at most once, only by extractions whose status is
\* a Replay status, and before the format-extraction call; the Replay strategy
\* starts with exactly one fetch made.
C3_KeyFetchOnlyForReplay ==
  /\ Count(calls, "inkey") <= 1
  /\ Occurs(calls, "inkey") => status \in ReplayStatuses
  /\ pc = "_replay" => Count(calls, "inkey") = 1
  /\ \A i \in 1..Len(calls) :
       calls[i] = "video_info" => \E j \in 1..(i - 1) : calls[j] = "inkey"

\* C4: the dispatch step sends the live statuses to _live only, the replay
\* statuses to _replay only, raises for each error status its own message and
\* for any other status the unknown-status message carrying the status; no
\* extraction runs both strategies or one of them twice.
DispatchStep ==
  pc = "dispatch" =>
    /\ status \in {"LIVE_ON_AIR", "BIG_EVENT_ON_AIR", "LIVE"} =>
         pc' = "_live" /\ error' = None
    /\ status \in {"VOD_ON_AIR", "BIG_EVENT_INTRO", "VOD"} =>
         pc' = "_replay" /\ error' = None
    /\ TerminalStatus(status) =>
         /\ pc' = "raised"
         /\ error' = "ExtractorError"
         /\ error_msg' = ClaimedMessage(status)
         /\ calls' = calls

OneStrategy ==
  /\ Count(calls, "playInfo") + Count(calls, "video_info") <= 1
  /\ (pc = "_live" \/ Occurs(calls, "playInfo")) => status \in LiveStatuses
  /\ (pc = "_replay" \/ Occurs(calls, "video_info")) => status \in ReplayStatuses
  /\ pc \in {"_live", "_replay"} =>
       ~Occurs(calls, "playInfo") /\ ~Occurs(calls, "video_info")

C4_DispatchTotal == [][DispatchStep]_vars /\ []OneStrategy

C4_Witness ==
  /\ pc = "raised"
  /\ status = "FAN_SHIP"
  /\ error_msg = <<"Unknown status %s", "FAN_SHIP">>

\* C5: the format collaborator is never called with an unset, null or empty
\* key, and an inkey response without the inkey field ends the extraction
\* with the extractor's own error.
C5_ReplayNeedsKey ==
  /\ Occurs(calls, "video_info") => key \notin {Unbound, None, ""}
  /\ (status \in ReplayStatuses /\ key_webpage = "{}") =>
       pc = "raised" /\ error = "ExtractorError"

\* C6 as amended: when the playInfo response parsed and every entry has its
\* serviceUrl, the call returns an info dict marked is_live whose formats are,
\* sorted, exactly the formats of the entries whose manifest did not fail;
\* with every manifest failing the list is empty.
Failures(streamList) == {i \in 1..Len(streamList) : streamList[i].failed}

RECURSIVE SucceededFormats(_)
SucceededFormats(streamList) ==
  IF streamList = <<>> THEN <<>>
  ELSE (IF Head(streamList).failed THEN <<>> ELSE Head(streamList).manifest)
       \o SucceededFormats(Tail(streamList))

LiveResolved ==
  /\ live_json.parsed
  /\ \A i \in 1..Len(live_json.streamList) : live_json.streamList[i].serviceUrl

RECURSIVE FirstEmptyPage(_, _)
FirstEmptyPage(pages, n) ==
  IF n > Len(pages) THEN n
  ELSE IF ~pages[n].present \/ Len(pages[n].videoList) = 0 THEN n
  ELSE FirstEmptyPage(pages, n + 1)

\* The videos of pages 1..n, page after page, each page in its own order.
RECURSIVE VideosOfPages(_, _)
VideosOfPages(pages, n) ==
  IF n = 0 THEN <<>> ELSE VideosOfPages(pages, n - 1) \o pages[n].videoList

HasVideoSeq(v) == v # 0

ChannelListing ==
  ie = "vlive:channel" =>
    /\ page_nos = [i \in 1..page_num |-> i]
    /\ page_num <= FirstEmptyPage(channel_pages, 1)
    /\ pc = "channel_list" => page_num < FirstEmptyPage(channel_pages, 1)
    /\ pc = "returned" =>
         /\ page_num = FirstEmptyPage(channel_pages, 1)
         /\ result_kind = "playlist_result"
         /\ entries = SelectSeq(VideosOfPages(channel_pages, page_num - 1), HasVideoSeq)

\* Every turn of the loop asks for the next page and either goes on, returns
\* the listing or raises.
ChannelStep ==
  pc = "channel_list" =>
    /\ page_num' = page_num + 1
    /\ pc' \in {"channel_list", "returned", "raised"}
    /\ pc' = "channel_list" => page_num' < FirstEmptyPage(channel_pages, 1)

\* C7 as amended: the pages are requested as 1, 2, 3, ... and never past the
\* first page whose video list is empty or absent, so the loop ends within
\* that many turns; the listing returned holds, in page order and in-page
\* order, one entry per video of the preceding pages that has a videoSeq.
C7_Pagination == []ChannelListing /\ [][ChannelStep]_vars

C7_Witness ==
  /\ ie = "vlive:channel"
  /\ pc = "returned"
  /\ page_nos = <<1, 2, 3>>
  /\ Len(VideosOfPages(channel_pages, 2)) = 4
  /\ Len(entries) = 3

\* C7 as stated: the listing holds exactly one entry per video of the
\* preceding pages.
C7_OneEntryPerVideo ==
  (ie = "vlive:channel" /\ pc = "returned") =>
    /\ page_num = FirstEmptyPage(channel_pages, 1)
    /\ Len(entries) = Len(VideosOfPages(channel_pages, page_num - 1))

\* C8: a fetched playlist page whose item-id list is absent or holds no item
\* returns the url_result of the video named in the URL, and a playlist_result
\* has at least one entry, one per item id in list order.
Blank(text) == \A i \in 1..Len(text) : text[i] = " "

C8_EmptyListDegrades ==
  (ie = "vlive:playlist" /\ pc = "returned") =>
    /\ (~webpage.seqs \/ Blank(webpage.text)) =>
         result_kind = "url_result" /\ result_id = video_id /\ entries = <<>>
    /\ result_kind = "playlist_result" =>
         /\ entries # <<>>
         /\ entries = ParseItemIds(webpage.text).item_ids

\* C9: without both credentials initialization makes no request and succeeds;
\* with both, the cookie request, the credential POST and the loginInfo check
\* are made in that order before any other request, a check that does not
\* report a logged-in session raises 'Unable to log in', _real_extract runs
\* only on an initialized extractor, and an initialized extractor logs in no more.
LoginOrder ==
  \E n \in 0..3 :
    /\ LoginPart(calls) = SubSeq(<<"login_cookies", "login_post", "loginInfo">>, 1, n)
    /\ SubSeq(calls, 1, n) = LoginPart(calls)

LoginState ==
  ie = "vlive" =>
    /\ LoginOrder
    /\ (email = None \/ password = None) => LoginPart(calls) = <<>>
    /\ (pc \notin {"idle", "initialize", "raised"} \/ ExtractPart(calls) # <<>>) => ready
    /\ login_info \notin {Unbound, "true"} =>
         /\ pc = "raised"
         /\ error = "ExtractorError"
         /\ error_msg = <<"Unable to log in">>
         /\ ~ready
         /\ ExtractPart(calls) = <<>>

LoginStep ==
  /\ (pc = "initialize" /\ ~ready /\ (email = None \/ password = None)) =>
       pc' = "real_extract" /\ ready' /\ calls' = calls
  /\ (~ready /\ ready' /\ email # None /\ password # None) =>
       /\ login_info' = "true"
       /\ calls' = <<"login_cookies", "login_post", "loginInfo">>
  /\ ready => ready' /\ Len(LoginPart(calls')) <= Len(LoginPart(calls))

C9_Login == []LoginState /\ [][LoginStep]_vars

C9_Witness ==
  /\ ie = "vlive"
  /\ login_info = "false"
  /\ ~ready
  /\ pc = "raised"
  /\ calls = <<"login_cookies", "login_post", "loginInfo">>

\* C10: the Replay strategy is entered, and the format collaborator called,
\* only with key assigned by the inkey fetch of the same call, on a page whose
\* type is not LIVE; no read of key finds it unassigned.
C10_ReplayHasKey ==
  /\ (pc = "_replay" \/ Occurs(calls, "video_info")) =>
       /\ key # Unbound
       /\ key_webpage # Unbound
       /\ Occurs(calls, "inkey")
       /\ vid_type # "LIVE"
  /\ (pc = "dispatch" /\ status \in ReplayStatuses) => key # Unbound
  /\ error # "UnboundLocalError"

C10_Witness ==
  /\ pc = "_replay"
  /\ status = "VOD"
  /\ key = "k"
  /\ calls = <<"video_page", "inkey">>

====
